---- MODULE Spec2Model ----
(***************************************************************************)
(* A model of NflScraper (src/scraper.py): the navigation retry of         *)
(* select_year_and_week, the element-count wait and per-entry loop of      *)
(* get_game_week_data, and its nested parsers get_game_status_date and     *)
(* get_score_data.  Text is modelled by TLA+ strings; str.split, " ".join, *)
(* str.isupper, str.isnumeric and int() are computed character by          *)
(* character.  Python values of mixed type (str, int, NaN, None) are       *)
(* tagged records.                                                         *)
(***************************************************************************)
EXTENDS Integers, Sequences, FiniteSets, TLC

(***************************************************************************)
(* Python values                                                           *)
(***************************************************************************)
PyStr(s) == [t |-> "str", v |-> s]
PyInt(n) == [t |-> "int", v |-> n]
PyNaN == [t |-> "nan", v |-> 0]
PyNone == [t |-> "none", v |-> 0]

UpperChars == {"A", "B", "C", "D", "E", "F", "G", "H", "I", "J", "K", "L", "M",
               "N", "O", "P", "Q", "R", "S", "T", "U", "V", "W", "X", "Y", "Z"}
DigitChars == {"0", "1", "2", "3", "4", "5", "6", "7", "8", "9"}

\* str.isupper() of the first character of a non-empty token
FirstIsUpper(tok) == Head(tok) \in UpperChars

\* str.isnumeric(): non-empty and every character a digit
IsNumeric(tok) ==
  /\ Len(tok) > 0
  /\ \A i \in 1..Len(tok) : SubSeq(tok, i, i) \in DigitChars

DigitVal(c) ==
  CASE c = "0" -> 0 [] c = "1" -> 1 [] c = "2" -> 2 [] c = "3" -> 3
    [] c = "4" -> 4 [] c = "5" -> 5 [] c = "6" -> 6 [] c = "7" -> 7
    [] c = "8" -> 8 [] c = "9" -> 9

RECURSIVE StrToInt(_)
StrToInt(s) ==
  IF Len(s) = 0 THEN 0
  ELSE 10 * StrToInt(SubSeq(s, 1, Len(s) - 1)) + DigitVal(SubSeq(s, Len(s), Len(s)))

\* int(x) on a score value: the int itself, or the parsed digit string;
\* a non-numeric string raises ValueError
IntRaises(x) == x.t = "str" /\ ~IsNumeric(x.v)
IntOf(x) == IF x.t = "int" THEN x.v ELSE StrToInt(x.v)

\* str.split(): tokens separated by runs of blanks, no empty tokens
RECURSIVE SplitAcc(_, _, _)
SplitAcc(s, cur, acc) ==
  IF Len(s) = 0
  THEN IF cur = "" THEN acc ELSE Append(acc, cur)
  ELSE IF Head(s) = " "
       THEN SplitAcc(Tail(s), "", IF cur = "" THEN acc ELSE Append(acc, cur))
       ELSE SplitAcc(Tail(s), cur \o Head(s), acc)

Split(s) == SplitAcc(s, "", <<>>)

\* " ".join(words)
RECURSIVE Join(_)
Join(words) ==
  IF Len(words) = 0 THEN ""
  ELSE IF Len(words) = 1 THEN words[1]
  ELSE words[1] \o " " \o Join(Tail(words))

\* list.count(x)
Count(seq, x) == Cardinality({i \in 1..Len(seq) : seq[i] = x})

\* list.remove(x) when x is present: drops the first occurrence
RemoveFirst(seq, x) ==
  LET i == CHOOSE j \in 1..Len(seq) :
             seq[j] = x /\ \A k \in 1..(j - 1) : seq[k] # x
  IN SubSeq(seq, 1, i - 1) \o SubSeq(seq, i + 1, Len(seq))

Returned(val) == [exc |-> "none", val |-> val]
Raised(e) == [exc |-> e, val |-> <<>>]

(***************************************************************************)
(* get_game_status_date                                                    *)
(***************************************************************************)
get_game_status_date(text) ==
  LET sad_data == Split(text) IN
  IF Count(sad_data, "CANCELLED") >= 1
  THEN Returned(<<PyStr("CANCELLED"), PyStr("CANCELLED"), PyStr("CANCELLED")>>)
  ELSE IF Count(sad_data, "-") = 0
       THEN Raised("ValueError")
       ELSE Returned([i \in 1..(Len(sad_data) - 1) |->
                        PyStr(RemoveFirst(sad_data, "-")[i])])

(***************************************************************************)
(* get_score_data                                                          *)
(***************************************************************************)
\* the filter loop: upper-case-leading tokens gather in multi_word_team_name,
\* any other token first flushes the gathered name; what is still gathered
\* when the tokens run out is not flushed
RECURSIVE MergeNames(_, _, _)
MergeNames(scores_data, multi_word_team_name, clean_scores_data) ==
  IF Len(scores_data) = 0 THEN clean_scores_data
  ELSE IF FirstIsUpper(scores_data[1])
       THEN MergeNames(Tail(scores_data),
                       Append(multi_word_team_name, scores_data[1]),
                       clean_scores_data)
       ELSE MergeNames(Tail(scores_data), <<>>,
                       Append(IF Len(multi_word_team_name) > 0
                              THEN Append(clean_scores_data, Join(multi_word_team_name))
                              ELSE clean_scores_data,
                              scores_data[1]))

\* the score/record loop over the away side; s is
\* <<away_score, home_score, away_record, home_record>>
RECURSIVE ScoreLoop(_, _, _)
ScoreLoop(away_team, home_team, s) ==
  IF Len(away_team) = 0 THEN s
  ELSE ScoreLoop(Tail(away_team), Tail(home_team),
                 IF IsNumeric(away_team[1])
                 THEN <<PyStr(away_team[1]), PyStr(home_team[1]), s[3], s[4]>>
                 ELSE <<s[1], s[2], PyStr(away_team[1]), PyStr(home_team[1])>>)

\* a win check that also counts a tie for the away side
AwayWinsOrTies(away_score, home_score) == IntOf(away_score) >= IntOf(home_score)

\* the team win check
AwayWins(away_score, home_score) == IntOf(away_score) > IntOf(home_score)
HomeWins(away_score, home_score) == IntOf(away_score) < IntOf(home_score)

get_score_data(text) ==
  LET clean_scores_data == MergeNames(Split(text), <<>>, <<>>)
      data_split == Len(clean_scores_data) \div 2
      away0 == SubSeq(clean_scores_data, 1, data_split)
      home0 == SubSeq(clean_scores_data, data_split + 1, Len(clean_scores_data))
  IN
  IF Len(away0) = 0 THEN Raised("IndexError")
  ELSE
    LET seeded == IsNumeric(away0[1])
        away1 == IF seeded THEN Tail(away0) ELSE away0
        home1 == IF seeded THEN Tail(home0) ELSE home0
    IN
    IF Len(away1) = 0 THEN Raised("IndexError")
    ELSE
      LET s == ScoreLoop(Tail(away1), Tail(home1),
                         <<PyInt(0), PyInt(0), PyNaN, PyNaN>>)
      IN
      IF IntRaises(s[1]) \/ IntRaises(s[2]) THEN Raised("ValueError")
      ELSE Returned(<<
             PyStr(away1[1]), s[3], s[1],
             PyInt(IF AwayWins(s[1], s[2]) THEN 1 ELSE 0),
             PyStr(home1[1]), s[4], s[2],
             PyInt(IF HomeWins(s[1], s[2]) THEN 1 ELSE 0),
             IF seeded THEN PyStr(away0[1]) ELSE PyNaN,
             IF seeded THEN PyStr(home0[1]) ELSE PyNaN,
             PyInt(IF seeded THEN 1 ELSE 0)>>)

(***************************************************************************)
(* The remote view (spec section 6) and the requests made of it            *)
(***************************************************************************)
\* the option sets of the view's two dropdowns
SeasonOptions == {"2023"}
WeekOptions == {"Week 1", "Wild Card Weekend", "Divisional Playoffs",
                "Conference Championships", "Super Bowl"}

\* the (chosen_year, chosen_week) pairs a caller asks for; "1999" and
\* "Week 99" are in no option set
Requests == {<<"2023", "Week 1">>, <<"2023", "Divisional Playoffs">>,
             <<"2023", "Conference Championships">>, <<"2023", "Super Bowl">>,
             <<"2023", "Week 99">>, <<"1999", "Super Bowl">>}

\* the most elements the view ever renders under the shared class name
MaxRendered == 5
\* the largest attempt budget a direct caller of select_year_and_week passes
MaxBudget == 6

\* default of max_attempts in select_year_and_week and get_game_week_data
SelectDefaultAttempts == 5
WeekDefaultAttempts == 5

\* dropdown_search_and_select under WebDriverWait.until: the option is
\* selected, or the select reports Stale or NotFound, or the wait times out
SelectOutcomes(label, options) ==
  IF label \in options THEN {"ok", "Stale", "Timeout"}
  ELSE {"NotFound", "Stale", "Timeout"}

\* enough_elements_present under WebDriverWait.until: the elements, once at
\* least `expected` of them are observed, else a timeout
EnoughElementsPresent(observed, expected) == observed >= expected

\* an entry element as its sub-structures answer find_element and .text
Entry(game, sad, sadText, score, scoreText, bye, byeText) ==
  [game |-> game, hasSad |-> sad, sadText |-> sadText,
   hasScore |-> score, scoreText |-> scoreText,
   hasBye |-> bye, byeText |-> byeText]

PlayedEntry == Entry(TRUE, TRUE, "FINAL - SUN 09/10", TRUE,
                     "Kansas City Chiefs 11-2 24 New England Patriots 8-5 17",
                     FALSE, "")
TiedEntry == Entry(TRUE, TRUE, "FINAL/OT - SUN 09/17", TRUE,
                   "Eagles 17 Bengals 17", FALSE, "")
SeededEntry == Entry(TRUE, TRUE, "FINAL - SAT 01/13", TRUE,
                     "4 Texans 45 5 Browns 14", FALSE, "")
CancelledEntry == Entry(TRUE, TRUE, "CANCELLED", TRUE,
                        "Bills 3-1 Bengals 2-2", FALSE, "")
ByeEntry == Entry(FALSE, FALSE, "", FALSE, "", TRUE, "Bills (10-2)")
LongByeEntry == Entry(FALSE, FALSE, "", FALSE, "", TRUE, "Buffalo Bills (10-2)")
StrayEntry == Entry(FALSE, FALSE, "", FALSE, "", FALSE, "")
NoSeparatorEntry == Entry(TRUE, TRUE, "FINAL SUN 09/10", TRUE,
                          "Jets 10 Giants 7", FALSE, "")
UnplayedEntry == Entry(TRUE, TRUE, "SUN - 09/24 1:00", TRUE,
                       "Jets 3-1 Giants 2-2", FALSE, "")
NamesOnlyEntry == Entry(TRUE, TRUE, "FINAL - MON 09/11", TRUE,
                        "Jets Giants", FALSE, "")

EntryPool == {PlayedEntry, TiedEntry, SeededEntry, CancelledEntry, ByeEntry,
              LongByeEntry, StrayEntry, NoSeparatorEntry, UnplayedEntry,
              NamesOnlyEntry}

(***************************************************************************)
(* get_game_week_data: the expected-count lookup and the per-entry body    *)
(***************************************************************************)
RegularWeekElements == 19
BowlElements == 4
ConferenceElements == 5
DivisionalElements == 7
WildCardElements == 7

num_score_elements(week) ==
  IF week \in {"Hall Of Fame", "Pro Bowl", "Super Bowl"} THEN BowlElements
  ELSE IF week \in {"Conference Championships"} THEN ConferenceElements
  ELSE IF week \in {"Divisional Playoffs"} THEN DivisionalElements
  ELSE IF week \in {"Wild Card Weekend"} THEN WildCardElements
  ELSE RegularWeekElements

\* titles_scores_byes_webelements[3::] : the index of the first kept element
FirstKept == 4

NumColumns == 16

\* df_week_scores.loc[len(df_week_scores)] = row  (pandas refuses a row whose
\* length is not the number of columns)
SkipEntry == [kind |-> "skip", row |-> <<>>, exc |-> "none"]
RaiseEntry(exc) == [kind |-> "raise", row |-> <<>>, exc |-> exc]
SetRow(row) == IF Len(row) = NumColumns
               THEN [kind |-> "row", row |-> row, exc |-> "none"]
               ELSE RaiseEntry("ValueError")

\* the row of a played or cancelled game: season, week, status and date
\* data, score data
GameRow(year, week, sad_data, score_data) ==
  <<PyStr(year), PyStr(week)>> \o sad_data \o score_data

\* the team and record of a bye element, from bye.text.split()
ByeTeam(bye_data) == bye_data[1]
ByeRecord(bye_data) == SubSeq(bye_data[2], 2, Len(bye_data[2]) - 1)

ByeRow(year, week, bye_data) ==
  <<PyStr(year), PyStr(week), PyStr("BYE"), PyNone, PyNone,
    PyStr(ByeTeam(bye_data)), PyStr(ByeRecord(bye_data)),
    PyNaN, PyNaN, PyNone, PyNaN, PyNaN, PyNaN, PyNaN, PyNaN, PyInt(0)>>

\* the except NoSuchElementException branch of the loop body
ByeBranch(e, year, week) ==
  IF ~e.hasBye THEN SkipEntry
  ELSE LET bye_data == Split(e.byeText) IN
       IF Len(bye_data) < 2 THEN RaiseEntry("IndexError")
       ELSE SetRow(ByeRow(year, week, bye_data))

\* the loop body for one element of scores_byes_webelements
AssembleEntry(e, year, week) ==
  IF ~e.game \/ ~e.hasSad THEN ByeBranch(e, year, week)
  ELSE LET sad == get_game_status_date(e.sadText) IN
       IF sad.exc # "none" THEN RaiseEntry(sad.exc)
       ELSE IF ~e.hasScore THEN ByeBranch(e, year, week)
       ELSE LET score == get_score_data(e.scoreText) IN
            IF score.exc # "none" THEN RaiseEntry(score.exc)
            ELSE SetRow(GameRow(year, week, sad.val, score.val))

(***************************************************************************)
(* State                                                                   *)
(***************************************************************************)
VARIABLES
  pc,              \* where the caller's thread is: "idle" (no call running),
                   \* "nav" (in select_year_and_week), "wait" (select returned,
                   \* get_game_week_data about to wait), "loop" (in the
                   \* per-entry loop), "crashed" (an exception left main)
  caller,          \* who called select_year_and_week: "week" or "direct"
  chosen_year,     \* arguments of the running call
  chosen_week,
  week_attempts,   \* max_attempts of the running get_game_week_data frame
  nav_attempts,    \* max_attempts of the running select_year_and_week frame
  nav_budget,      \* max_attempts the outermost select_year_and_week got
  nav_calls,       \* select_year_and_week invocations since that outermost call
  week_calls,      \* get_game_week_data invocations of the running call
  nav_result,      \* how the last select_year_and_week ended: "none",
                   \* "Success", "NotFound" or "Exhausted"
  last_select,     \* what the last dropdown select reported: "none", "ok",
                   \* "Stale", "NotFound" or "Timeout"
  error,           \* the exception that left main, "none" if none did
  at_scores,       \* driver.current_url is the scores page
  view,            \* <<season, week>> selected in the view's dropdowns
  num_elements,    \* len(titles_scores_byes_webelements)
  next_index,      \* index of the next element the loop visits
  df_week_scores,  \* rows of the data frame being built
  visited,         \* the elements the loop has read so far, each with its
                   \* index in titles_scores_byes_webelements
  result,          \* what get_game_week_data returned: "none" (not yet),
                   \* "df" or "None"
  game,            \* the classifier's round trip: a game, its rendered text,
  text,            \* and get_score_data of that text
  organized,
  cpc              \* "game", "text" or "classified"

weekVars == <<week_attempts, week_calls, num_elements, next_index,
              df_week_scores, visited, result>>
navVars == <<nav_attempts, nav_budget, nav_calls, nav_result, last_select,
             at_scores, view>>
classVars == <<game, text, organized, cpc>>
vars == <<pc, caller, error, chosen_year, chosen_week, weekVars, navVars,
          classVars>>

NoGame == [awayTeam |-> "", homeTeam |-> "", records |-> <<>>,
           scores |-> <<>>, seeding |-> <<>>]

InitWeek ==
  /\ pc = "idle"
  /\ caller = "week"
  /\ chosen_year = ""
  /\ chosen_week = ""
  /\ week_attempts = 0
  /\ week_calls = 0
  /\ nav_attempts = 0
  /\ nav_budget = 0
  /\ nav_calls = 0
  /\ nav_result = "none"
  /\ last_select = "none"
  /\ error = "none"
  /\ at_scores = FALSE
  /\ view = <<"", "">>
  /\ num_elements = 0
  /\ next_index = 0
  /\ df_week_scores = <<>>
  /\ visited = <<>>
  /\ result = "none"

Init ==
  /\ InitWeek
  /\ game = NoGame
  /\ text = ""
  /\ organized = Returned(<<>>)
  /\ cpc = "game"

(***************************************************************************)
(* select_year_and_week                                                    *)
(***************************************************************************)
\* a retry test that allows one retry too many
MayRetrySelectOnceMore(attempts) == attempts >= 0

\* the retry test of the except StaleElementReferenceException branch
MayRetrySelect(attempts) == attempts > 0

\* where a returning select_year_and_week hands control back
ReturnFromSelect == IF caller = "week" THEN "wait" ELSE "idle"

\* the except StaleElementReferenceException branch
SelectStale ==
  IF MayRetrySelect(nav_attempts)
  THEN /\ nav_attempts' = nav_attempts - 1
       /\ nav_calls' = nav_calls + 1
       /\ pc' = "nav"
       /\ UNCHANGED <<nav_result, error>>
  ELSE /\ nav_result' = "Exhausted"
       /\ pc' = ReturnFromSelect
       /\ UNCHANGED <<nav_attempts, nav_calls, error>>

\* a NoSuchElementException handled as if it were transient
SelectNotFoundRetries == SelectStale

\* the except NoSuchElementException branch: report, no retry
SelectNotFound ==
  /\ nav_result' = "NotFound"
  /\ pc' = ReturnFromSelect
  /\ UNCHANGED <<nav_attempts, nav_calls, error>>

\* a TimeoutException of wait.until is caught nowhere
SelectTimeout ==
  /\ pc' = "crashed"
  /\ error' = "TimeoutException"
  /\ UNCHANGED <<nav_attempts, nav_calls, nav_result>>

\* what the except clauses do with a failed select
SelectFailed(outcome) ==
  CASE outcome = "Stale" -> SelectStale
    [] outcome = "NotFound" -> SelectNotFound
    [] outcome = "Timeout" -> SelectTimeout

\* one invocation of select_year_and_week: open the scores page if needed,
\* select the season, then the week
SelectYearAndWeek ==
  /\ pc = "nav"
  /\ at_scores' = TRUE
  /\ \E season \in SelectOutcomes(chosen_year, SeasonOptions) :
       \/ /\ season = "ok"
          /\ \E week \in SelectOutcomes(chosen_week, WeekOptions) :
               /\ last_select' = week
               /\ \/ /\ week = "ok"
                     /\ view' = <<chosen_year, chosen_week>>
                     /\ nav_result' = "Success"
                     /\ pc' = ReturnFromSelect
                     /\ UNCHANGED <<nav_attempts, nav_calls, error>>
                  \/ /\ week # "ok"
                     /\ view' = <<chosen_year, view[2]>>
                     /\ SelectFailed(week)
       \/ /\ season # "ok"
          /\ last_select' = season
          /\ SelectFailed(season)
          /\ UNCHANGED view
  /\ UNCHANGED <<caller, chosen_year, chosen_week, nav_budget, weekVars, classVars>>

\* a caller invokes select_year_and_week itself, with a budget of its choice
CallSelect ==
  /\ pc = "idle"
  /\ \E r \in Requests, n \in 0..MaxBudget :
       /\ chosen_year' = r[1]
       /\ chosen_week' = r[2]
       /\ nav_attempts' = n
       /\ nav_budget' = n
  /\ caller' = "direct"
  /\ nav_calls' = 1
  /\ nav_result' = "none"
  /\ last_select' = "none"
  /\ pc' = "nav"
  /\ UNCHANGED <<error, at_scores, view, weekVars, classVars>>

(***************************************************************************)
(* get_game_week_data                                                      *)
(***************************************************************************)
\* a retry test that allows one retry too many
MayRetryWeekOnceMore(attempts) == attempts >= 0

\* the retry test of the except TimeoutException branch
MayRetryWeek(attempts) == attempts > 0

\* get_game_week_data begins by calling select_year_and_week with the
\* default budget
EnterWeek ==
  /\ caller' = "week"
  /\ nav_attempts' = SelectDefaultAttempts
  /\ nav_budget' = SelectDefaultAttempts
  /\ nav_calls' = 1
  /\ nav_result' = "none"
  /\ last_select' = "none"
  /\ df_week_scores' = <<>>
  /\ visited' = <<>>
  /\ num_elements' = 0
  /\ next_index' = 0
  /\ pc' = "nav"

\* main calls get_game_week_data(chosen_year, chosen_week)
CallWeek ==
  /\ pc = "idle"
  /\ \E r \in Requests :
       /\ chosen_year' = r[1]
       /\ chosen_week' = r[2]
  /\ week_attempts' = WeekDefaultAttempts
  /\ week_calls' = 1
  /\ result' = "none"
  /\ EnterWeek
  /\ UNCHANGED <<error, at_scores, view, classVars>>

\* the frame of the select_year_and_week call that has returned is gone
DropSelectFrame ==
  /\ nav_attempts' = 0
  /\ nav_calls' = 0
  /\ UNCHANGED <<nav_budget, nav_result, last_select, at_scores, view>>

\* select_year_and_week has returned (its value is not looked at): wait for
\* the shared-class element, then for enough elements
WaitForElements ==
  /\ pc = "wait"
  /\ \/ /\ pc' = "crashed"
        /\ error' = "TimeoutException"
        /\ DropSelectFrame
        /\ UNCHANGED <<caller, weekVars>>
     \/ \E observed \in 0..MaxRendered :
          IF EnoughElementsPresent(observed, num_score_elements(chosen_week))
          THEN /\ num_elements' = observed
               /\ next_index' = FirstKept
               /\ pc' = "loop"
               /\ DropSelectFrame
               /\ UNCHANGED <<caller, error, week_attempts, week_calls,
                              df_week_scores, visited, result>>
          ELSE IF MayRetryWeek(week_attempts)
               THEN /\ week_attempts' = week_attempts - 1
                    /\ week_calls' = week_calls + 1
                    /\ EnterWeek
                    /\ UNCHANGED <<error, result, at_scores, view>>
               ELSE /\ result' = "None"
                    /\ pc' = "idle"
                    /\ DropSelectFrame
                    /\ UNCHANGED <<caller, error, week_attempts, week_calls,
                                   num_elements, next_index, df_week_scores,
                                   visited>>
  /\ UNCHANGED <<chosen_year, chosen_week, classVars>>

\* a row put before the rows already there
AddRowFirst(df, row) == <<row>> \o df

\* df.loc[len(df)] = row : the row goes after the rows already there
AddRow(df, row) == Append(df, row)

\* one pass of the loop over scores_byes_webelements; the element's
\* sub-structures and text are what the view holds when they are read
ProcessEntry ==
  /\ pc = "loop"
  /\ next_index <= num_elements
  /\ \E e \in EntryPool :
       LET a == AssembleEntry(e, chosen_year, chosen_week) IN
       /\ visited' = Append(visited, [index |-> next_index, entry |-> e])
       /\ \/ /\ a.kind = "row"
             /\ df_week_scores' = AddRow(df_week_scores, a.row)
             /\ next_index' = next_index + 1
             /\ UNCHANGED <<pc, error>>
          \/ /\ a.kind = "skip"
             /\ next_index' = next_index + 1
             /\ UNCHANGED <<pc, error, df_week_scores>>
          \/ /\ a.kind = "raise"
             /\ pc' = "crashed"
             /\ error' = a.exc
             /\ UNCHANGED <<next_index, df_week_scores>>
  /\ UNCHANGED <<caller, chosen_year, chosen_week, week_attempts, week_calls,
                 num_elements, result, navVars, classVars>>

\* return df_week_scores
ReturnWeek ==
  /\ pc = "loop"
  /\ next_index > num_elements
  /\ result' = "df"
  /\ pc' = "idle"
  /\ UNCHANGED <<caller, error, chosen_year, chosen_week, week_attempts,
                 week_calls, num_elements, next_index, df_week_scores,
                 visited, navVars, classVars>>

(***************************************************************************)
(* The classifier alone: a game is rendered to the text of a score element *)
(* and get_score_data is applied to it                                     *)
(***************************************************************************)
TeamNames == {"Kansas City Chiefs", "New England Patriots", "Bills", "49ers",
              "San Francisco 49ers"}

\* records, scores and seeding are absent (<<>>) or an <<away, home>> pair
Games == [awayTeam : TeamNames, homeTeam : TeamNames,
          records : {<<>>, <<"11-2", "8-5">>},
          scores : {<<>>, <<24, 17>>, <<17, 24>>, <<17, 17>>},
          seeding : {<<>>, <<1, 6>>}]

DigitChar(d) ==
  CASE d = 0 -> "0" [] d = 1 -> "1" [] d = 2 -> "2" [] d = 3 -> "3"
    [] d = 4 -> "4" [] d = 5 -> "5" [] d = 6 -> "6" [] d = 7 -> "7"
    [] d = 8 -> "8" [] d = 9 -> "9"

\* the decimal numeral of a natural number
RECURSIVE IntToStr(_)
IntToStr(n) == IF n < 10 THEN DigitChar(n)
               ELSE IntToStr(n \div 10) \o DigitChar(n % 10)

\* one side of a score element: seeding, team name, record, score
RenderSide(g, k) ==
  Join((IF g.seeding = <<>> THEN <<>> ELSE <<IntToStr(g.seeding[k])>>)
       \o <<IF k = 1 THEN g.awayTeam ELSE g.homeTeam>>
       \o (IF g.records = <<>> THEN <<>> ELSE <<g.records[k]>>)
       \o (IF g.scores = <<>> THEN <<>> ELSE <<IntToStr(g.scores[k])>>))

\* the text of the score element: the away side, then the home side
RenderGame(g) == RenderSide(g, 1) \o " " \o RenderSide(g, 2)

ClassInit ==
  /\ InitWeek
  /\ game \in Games
  /\ text = ""
  /\ organized = Returned(<<>>)
  /\ cpc = "game"

Render ==
  /\ cpc = "game"
  /\ text' = RenderGame(game)
  /\ cpc' = "text"
  /\ UNCHANGED <<pc, caller, error, chosen_year, chosen_week, weekVars,
                 navVars, game, organized>>

Classify ==
  /\ cpc = "text"
  /\ organized' = get_score_data(text)
  /\ cpc' = "classified"
  /\ UNCHANGED <<pc, caller, error, chosen_year, chosen_week, weekVars,
                 navVars, game, text>>

Next == CallWeek \/ SelectYearAndWeek \/ WaitForElements \/ ProcessEntry \/ ReturnWeek

Spec == Init /\ [][Next]_vars

NavNext == CallSelect \/ SelectYearAndWeek

NavSpec == Init /\ [][NavNext]_vars

ClassNext == Render \/ Classify

ClassSpec == ClassInit /\ [][ClassNext]_vars

(***************************************************************************)
(* Properties                                                              *)
(***************************************************************************)
Rows == {df_week_scores[k] : k \in 1..Len(df_week_scores)}
IsBye(row) == row[3] = PyStr("BYE")
IsCancelled(row) == row[3] = PyStr("CANCELLED")
IsPlayed(row) == ~IsBye(row) /\ ~IsCancelled(row)
IsNull(x) == x \in {PyNone, PyNaN}

\* C1: the per-entry loop is entered, and rows exist, only after a
\* select_year_and_week that succeeded and left the view on exactly the
\* requested season and week.
C1_ReadOnlyAfterNavigation ==
  (pc = "loop" \/ Len(df_week_scores) > 0) =>
    (nav_result = "Success" /\ view = <<chosen_year, chosen_week>>)

\* C2: a select_year_and_week called with budget n makes at most n + 1
\* invocations, each retry taking exactly one attempt off the budget, and
\* it ends Exhausted only on a Stale failure with no attempt left.
C2_SelectRetriesBounded ==
  /\ nav_attempts \in 0..nav_budget
  /\ nav_calls <= nav_budget + 1
  /\ (pc = "nav" \/ nav_result # "none") =>
       nav_calls = nav_budget - nav_attempts + 1
  /\ nav_result = "Exhausted" =>
       (nav_attempts = 0 /\ nav_calls = nav_budget + 1 /\ last_select = "Stale")
  /\ (last_select = "Stale" /\ pc # "nav") => nav_result = "Exhausted"

C2_ExhaustedAfterDefaultBudget ==
  /\ nav_result = "Exhausted"
  /\ nav_budget = SelectDefaultAttempts
  /\ nav_calls = SelectDefaultAttempts + 1

\* C3: a select that reports NotFound ends the call at once with NotFound:
\* no further invocation follows and no attempt is taken off the budget,
\* at any depth of the retry.
C3_NotFoundEndsWithoutRetry ==
  last_select = "NotFound" =>
    /\ pc # "nav"
    /\ nav_result = "NotFound"
    /\ nav_calls = nav_budget - nav_attempts + 1

C3_NotFoundAtDepthThree ==
  /\ nav_result = "NotFound"
  /\ chosen_week = "Week 99"
  /\ nav_calls = 3
  /\ nav_attempts = nav_budget - 2

\* C4: the loop runs and rows exist only over at least the expected number
\* of elements; get_game_week_data is invoked at most max_attempts + 1
\* times for one call, and when it gives up it returns None with no rows.
C4_NoPartialWeek ==
  /\ (pc = "loop" \/ result = "df" \/ Len(df_week_scores) > 0) =>
       num_elements >= num_score_elements(chosen_week)
  /\ week_attempts \in 0..WeekDefaultAttempts
  /\ week_calls <= WeekDefaultAttempts + 1
  /\ week_calls > 0 => week_calls = WeekDefaultAttempts - week_attempts + 1
  /\ result = "None" =>
       /\ df_week_scores = <<>>
       /\ week_attempts = 0
       /\ week_calls = WeekDefaultAttempts + 1

C4_DivisionalGivenUp ==
  /\ result = "None"
  /\ chosen_week = "Divisional Playoffs"
  /\ num_score_elements(chosen_week) = DivisionalElements
  /\ week_calls = WeekDefaultAttempts + 1

\* C5: a malformed entry never aborts the week extraction: no ValueError or
\* IndexError of the parsers leaves get_game_week_data.
C5_MalformedEntrySkipped ==
  ~(pc = "crashed" /\ error \in {"ValueError", "IndexError"})

\* C6: a row whose status is CANCELLED carries no team name, record or
\* seeding from the entry's score region.
C6_CancelledRowIsBlank ==
  \A row \in Rows :
    IsCancelled(row) => \A c \in {6, 7, 10, 11, 14, 15} : IsNull(row[c])

\* C7 as stated: every game row that is not cancelled has exactly one of
\* AwayWin and HomeWin equal to 1.
C7_ExactlyOneWinner ==
  \A row \in Rows :
    IsPlayed(row) => row[9].v + row[13].v = 1

\* C7 as amended: every game row that is not cancelled has at most one of
\* AwayWin and HomeWin equal to 1: the side with the larger score when the
\* scores differ, neither when they are equal (the default 0-0 included).
C7_AtMostOneWinner ==
  \A row \in Rows :
    IsPlayed(row) =>
      LET a == IntOf(row[8])
          h == IntOf(row[12])
      IN /\ row[9] = PyInt(IF a > h THEN 1 ELSE 0)
         /\ row[13] = PyInt(IF a < h THEN 1 ELSE 0)
         /\ row[9].v + row[13].v <= 1
         /\ (a = h) <=> (row[9].v + row[13].v = 0)

C7_TieAndWinSeen ==
  /\ \E row \in Rows : IsPlayed(row) /\ row[8] = PyStr("17") /\ row[12] = PyStr("17")
                       /\ row[9] = PyInt(0) /\ row[13] = PyInt(0)
  /\ \E row \in Rows : IsPlayed(row) /\ row[9] = PyInt(1) /\ row[13] = PyInt(0)

\* the tokens of side k of the rendered game that do not begin with an
\* upper-case letter
NonUpperTokens(g, k) ==
  LET toks == Split(RenderSide(g, k))
  IN Cardinality({i \in 1..Len(toks) : ~FirstIsUpper(toks[i])})

\* C8: on a rendered game with an even number (zero included) of
\* non-upper-case-leading tokens on each side, get_score_data returns its
\* 11 fields and raises nothing.
C8_ClassifierTotal ==
  (/\ cpc = "classified"
   /\ NonUpperTokens(game, 1) % 2 = 0
   /\ NonUpperTokens(game, 2) % 2 = 0) =>
    (organized.exc = "none" /\ Len(organized.val) = 11)

\* C9: classifying the rendered text of a game with scores gives back the
\* game's team names, its scores and the win flags the scores imply.
C9_RoundTrip ==
  (cpc = "classified" /\ game.scores # <<>>) =>
    /\ organized.exc = "none"
    /\ organized.val[1] = PyStr(game.awayTeam)
    /\ organized.val[5] = PyStr(game.homeTeam)
    /\ IntOf(organized.val[3]) = game.scores[1]
    /\ IntOf(organized.val[7]) = game.scores[2]
    /\ organized.val[4] = PyInt(IF game.scores[1] > game.scores[2] THEN 1 ELSE 0)
    /\ organized.val[8] = PyInt(IF game.scores[1] < game.scores[2] THEN 1 ELSE 0)

\* the team name (every token but the last) and the record (the last token
\* without its parentheses) of a bye element's text
FullByeTeam(byeText) ==
  LET toks == Split(byeText) IN Join(SubSeq(toks, 1, Len(toks) - 1))
FullByeRecord(byeText) ==
  LET last == Split(byeText)[Len(Split(byeText))]
  IN SubSeq(last, 2, Len(last) - 1)

\* C10: every BYE row is the row of some bye element of the view: its team
\* is that element's full team name, its record the W-L string without the
\* parentheses, every score and seeding field null, PostSeason? 0.
C10_ByeRowOfFullName ==
  \A row \in Rows :
    IsBye(row) =>
      \E e \in EntryPool :
        /\ e.hasBye
        /\ row[6] = PyStr(FullByeTeam(e.byeText))
        /\ row[7] = PyStr(FullByeRecord(e.byeText))
        /\ \A c \in {4, 5} \cup (8..15) : IsNull(row[c])
        /\ row[16] = PyInt(0)

\* the rows the elements of a sequence of read elements give, in the order
\* of the elements: one for a game or a bye, none for an element that is
\* neither
RECURSIVE RowsOfElements(_, _, _)
RowsOfElements(els, year, week) ==
  IF Len(els) = 0 THEN <<>>
  ELSE LET a == AssembleEntry(els[1].entry, year, week)
       IN (IF a.kind = "row" THEN <<a.row>> ELSE <<>>)
          \o RowsOfElements(Tail(els), year, week)

\* C11: while the loop runs and once the data frame is returned, the
\* elements read are those of the waited-for sequence after its first 3, in
\* rendering order and each once; the rows are the rows of these elements in
\* that order, at most one per element and none for an element that is
\* neither game nor bye; a returned data frame has been built from every
\* element after the first 3; every row carries the requested season and week.
C11_RowsInRenderingOrder ==
  (pc = "loop" \/ result = "df") =>
    /\ \A k \in 1..Len(visited) : visited[k].index = 3 + k
    /\ Len(visited) = next_index - 1 - 3
    /\ df_week_scores = RowsOfElements(visited, chosen_year, chosen_week)
    /\ Len(df_week_scores) <= Len(visited)
    /\ result = "df" => Len(visited) = num_elements - 3
    /\ \A row \in Rows : row[1] = PyStr(chosen_year) /\ row[2] = PyStr(chosen_week)

\* a returned data frame over 5 waited-for elements: the first 3 were not
\* read, the 4th was neither game nor bye, the 5th a game whose row is the
\* only one
C11_StrayThenGame ==
  /\ result = "df"
  /\ num_elements = 5
  /\ Len(visited) = 2
  /\ visited[1] = [index |-> 4, entry |-> StrayEntry]
  /\ visited[2] = [index |-> 5, entry |-> PlayedEntry]
  /\ Len(df_week_scores) = 1
  /\ IsPlayed(df_week_scores[1])
  /\ df_week_scores[1][1] = PyStr(chosen_year)
  /\ df_week_scores[1][2] = PyStr(chosen_week)
====
